---- MODULE Spec2Model ----
(***************************************************************************)
(* Model of the video composition drivers of no-code-architects-toolkit:   *)
(*   services/v1/video/concatenate.py  process_video_concatenate           *)
(*   services/ffmpeg_toolkit.py        process_video_combination           *)
(* One behaviour is one request handled by one of the two entry points.    *)
(*                                                                         *)
(* Times are integers counted in half seconds (10 stands for 5.0 s, 3 for  *)
(* 1.5 s): every value the model draws is a multiple of 0.5 s, on which    *)
(* the float arithmetic of the source is exact.                            *)
(* Python lists are 1-based sequences here; clip indices, join indices and *)
(* labels keep the 0-based numbers of the source.                          *)
(***************************************************************************)
EXTENDS Integers, Sequences, FiniteSets, TLC

\* ---------------------------------------------------------------- bounds
MaxClips == 3

\* Clip durations ffprobe may report (half seconds).
DurValues == {8, 10, 12}

\* ---------------------------------------------------------------- values
Max(a, b) == IF a >= b THEN a ELSE b

RECURSIVE SumSeq(_)
SumSeq(s) == IF Len(s) = 0 THEN 0 ELSE Head(s) + SumSeq(Tail(s))

Replicate(x, n) == [i \in 1..n |-> x]

\* A scalar-or-list option as Python sees it: a str/float/int, a list/tuple,
\* or any other object (None, a dict).  val holds the scalar as a 1-tuple.
Scalar(x) == [tag |-> "scalar", val |-> <<x>>]
List(s) == [tag |-> "list", val |-> s]
Other == [tag |-> "other", val |-> <<>>]

\* transitions: one name for all joins, per-join lists (empty, exact for three
\* clips), or an object that is neither
TransitionOptions ==
    {Scalar("fade"), List(<<>>), List(<<"fade", "wipeleft">>), Other}

\* transition_durations: one number for all joins, per-join lists shorter
\* than, as long as and longer than the joins of two to four clips, the empty
\* list, or an object that is neither
TransitionDurationOptions ==
    {Scalar(x) : x \in {2, 11}}
        \cup {List(l) : l \in {<<>>, <<2>>, <<2, 3>>, <<0, 11, 3>>,
                                <<3, 2, 0, 11>>}}
        \cup {Other}

\* ------------------------------------------------------ _normalize_list
Ok(v) == [ok |-> TRUE, err |-> "", val |-> v]
Raise(e) == [ok |-> FALSE, err |-> e, val |-> <<>>]

_normalize_list(value, target_len) ==
    IF value.tag = "scalar"
    THEN Ok(Replicate(value.val[1], target_len))
    ELSE IF value.tag # "list"
    THEN Raise("InvalidParameterShape")   \* raise ValueError(...)
    ELSE LET lst == value.val IN
         IF Len(lst) < target_len
         THEN IF Len(lst) = 0
              THEN Raise("IndexError")          \* lst[-1] of an empty list
              ELSE Ok(SubSeq(lst \o Replicate(lst[Len(lst)], target_len - Len(lst)),
                             1, target_len))
         ELSE Ok(SubSeq(lst, 1, target_len))

\* ------------------------------------------------------- lead-in schedule
\* a schedule that ignores preserve_clip_starts
PrepadAlways(dn, preserve, n) == <<0>> \o dn

\* prepad = ([0.0] + d_norm[:]) if preserve_clip_starts else [0.0] * N
Prepad(dn, preserve, n) ==
    IF preserve THEN <<0>> \o dn ELSE Replicate(0, n)

\* ---------------------------------------------------- offsets and length
\* the offset without its clamp
OffsetUnclamped(cur, d_k) == cur - d_k

\* offset = max(current_len - d_k, 0.0)
Offset(cur, d_k) == Max(cur - d_k, 0)

\* the update without the overlap of the transition
NextLenNoOverlap(cur, prepad_k, dur_k, d_k) == cur + prepad_k + dur_k

\* current_len = current_len + prepad_k + durations[k] - d_k
NextLen(cur, prepad_k, dur_k, d_k) == cur + prepad_k + dur_k - d_k

\* the cumulative offset that forgets the earlier transitions
CumOffsetNoPrev(c, dn, j) == c - dn[j]

\* process_video_combination: offset = cum - prev_d_sum - d
CumOffset(c, dn, j) ==
    LET prev_d_sum == IF j > 1 THEN SumSeq(SubSeq(dn, 1, j - 1)) ELSE 0
    IN  c - prev_d_sum - dn[j]

\* silence for the bare clip duration
TotalSilNoLead(dur, pp, preserve) == dur

\* total_sil = durations[idx] + (prepad[idx] if preserve_clip_starts else 0.0)
TotalSil(dur, pp, preserve) == dur + (IF preserve THEN pp ELSE 0)

\* ------------------------------------------------------------ plan nodes
Lab(p, i, s) == <<p, i, s>>
InPad(i, s) == <<"in", i, s>>

Line(op, clip, ins, out, trans, dur, amt) ==
    [op |-> op, clip |-> clip, ins |-> ins, out |-> out,
     trans |-> trans, dur |-> dur, amt |-> amt]

\* video chain of one clip; amt is the tpad start_duration (0: no tpad)
VideoLine(idx, tpad) ==
    Line("video", idx, <<InPad(idx, "v")>>, Lab("v", idx, ""), "", 0, tpad)
\* audio chain of one clip; amt is the adelay in milliseconds (0: no adelay)
AudioLine(idx, ms) ==
    Line("audio", idx, <<InPad(idx, "a")>>, Lab("a", idx, ""), "", 0, ms)
\* anullsrc ... atrim=0:total_sil
SilenceLine(idx, secs) ==
    Line("anullsrc", idx, <<>>, Lab("a", idx, ""), "", 0, secs)
\* a blend that takes the previous clip's own label instead of the running one
XfadeLineFromClip(j, cv, nv, trans, d, offset) ==
    Line("xfade", j, <<Lab("v", j - 1, ""), nv>>, Lab("v", j, "o"), trans, d,
         offset)

XfadeLine(j, cv, nv, trans, d, offset) ==
    Line("xfade", j, <<cv, nv>>, Lab("v", j, "o"), trans, d, offset)
AcrossfadeLine(j, ca, na, d) ==
    Line("acrossfade", j, <<ca, na>>, Lab("a", j, "o"), "", d, 0)

\* ms = int(round(prepad[idx] * 1000)), prepad in half seconds
DelayMs(pp) == 500 * pp

\* ----------------------------------------------------------------- state
VARIABLES
    entry,                 \* "concatenate" | "combination"
    media_urls,            \* number of items of media_urls
    use_transitions, transitions, transition_durations, preserve_clip_starts,
    pc,                    \* position in the driver
    input_files,           \* clip indices downloaded so far, in order
    disk,                  \* temporary files of the request on local storage
    output,                \* output_path: "absent" | "empty" | "nonempty"
    durations, audio_flags, probed,
    transitions_norm, d_norm, prepad,
    filter_lines, v_labels, a_labels,
    current_v, current_a, current_len, cum, k,
    engine_cmd,            \* invocations of the media engine, in order
    log,                   \* driver steps after planning, in order
    result, error          \* "none" | "returned" | "raised", and the error

vars == <<entry, media_urls, use_transitions, transitions, transition_durations,
          preserve_clip_starts, pc, input_files, disk, output, durations,
          audio_flags, probed, transitions_norm, d_norm, prepad, filter_lines,
          v_labels, a_labels, current_v, current_a, current_len, cum, k,
          engine_cmd, log, result, error>>

request == <<entry, media_urls, use_transitions, transitions,
             transition_durations, preserve_clip_starts>>
probeVars == <<durations, audio_flags, probed>>
normVars == <<transitions_norm, d_norm, prepad>>
planVars == <<filter_lines, v_labels, a_labels, current_v, current_a,
              current_len, cum, k>>

InputFile(i) == <<"input", i>>
ConcatList == <<"concat_list", 0>>
NoLabel == Lab("", 0, "")

Init ==
    /\ entry \in {"concatenate", "combination"}
    /\ media_urls \in 0..MaxClips
    /\ use_transitions \in BOOLEAN
    /\ transitions \in TransitionOptions
    /\ transition_durations \in TransitionDurationOptions
    \* process_video_combination has no preserve_clip_starts parameter
    /\ preserve_clip_starts \in (IF entry = "concatenate" THEN BOOLEAN ELSE {FALSE})
    /\ pc = "download"
    /\ input_files = <<>>
    /\ disk = {}
    /\ output = "absent"
    /\ durations = <<>>
    /\ audio_flags = <<>>
    /\ probed = {}
    /\ transitions_norm = <<>>
    /\ d_norm = <<>>
    /\ prepad = <<>>
    /\ filter_lines = <<>>
    /\ v_labels = <<>>
    /\ a_labels = <<>>
    /\ current_v = NoLabel
    /\ current_a = NoLabel
    /\ current_len = 0
    /\ cum = 0
    /\ k = 0
    /\ engine_cmd = <<>>
    /\ log = <<>>
    /\ result = "none"
    /\ error = ""

\* except Exception as e: print(...); raise
Fail(e) ==
    /\ pc' = "done"
    /\ result' = "raised"
    /\ error' = e

\* ---------------------------------------------------------------- steps
\* for i, media_item in enumerate(media_urls): download_file(...); append
Download ==
    /\ pc = "download"
    /\ Len(input_files) < media_urls
    /\ LET i == Len(input_files) IN
        /\ input_files' = Append(input_files, i)
        /\ disk' = disk \cup {InputFile(i)}
    /\ UNCHANGED <<request, pc, output, probeVars, normVars, planVars,
                   engine_cmd, log, result, error>>

DownloadFails ==
    /\ pc = "download"
    /\ Len(input_files) < media_urls
    /\ Fail("FetchFailed")
    /\ UNCHANGED <<request, input_files, disk, output, probeVars, normVars,
                   planVars, engine_cmd, log>>

\* the download loop has run to its end
Downloaded == pc = "download" /\ Len(input_files) = media_urls

Cmd(kind, ins, maps) == [kind |-> kind, inputs |-> ins, maps |-> maps]

\* if len(input_files) == 1 and not use_transitions: stream copy
FastCopy ==
    /\ Downloaded
    /\ Len(input_files) = 1 /\ ~use_transitions
    /\ engine_cmd' = Append(engine_cmd, Cmd("copy", <<input_files[1]>>, <<>>))
    /\ log' = Append(log, "engine")
    /\ \/ /\ output' \in {"absent", "empty", "nonempty"}
          /\ pc' = "cleanup"
          /\ UNCHANGED <<result, error>>
       \/ /\ Fail("TranscodeFailed")
          /\ UNCHANGED output
    /\ UNCHANGED <<request, input_files, disk, probeVars, normVars, planVars>>

\* a list file written back to front
ConcatFileLinesReversed(files) ==
    [i \in 1..Len(files) |-> files[Len(files) + 1 - i]]

\* for p in input_files: f.write(f"file '{os.path.abspath(p)}'\n")
ConcatFileLines(files) == files

\* elif not use_transitions: concat demuxer over the list file
FastConcat ==
    /\ Downloaded
    /\ Len(input_files) # 1 /\ ~use_transitions
    /\ engine_cmd' = Append(engine_cmd,
                            Cmd("concat", ConcatFileLines(input_files), <<>>))
    /\ log' = Append(log, "engine")
    /\ \/ /\ output' \in {"absent", "empty", "nonempty"}
          /\ pc' = "cleanup"
          /\ disk' = disk \ {ConcatList}       \* os.remove(concat_file_path)
          /\ UNCHANGED <<result, error>>
       \/ /\ Fail("TranscodeFailed")
          /\ disk' = disk \cup {ConcatList}
          /\ UNCHANGED output
    /\ UNCHANGED <<request, input_files, probeVars, normVars, planVars>>

\* the guard off by one
TooFewInputsOffByOne(files) == Len(files) < 1

\* if len(input_files) < 2: raise ValueError(...)
TooFewInputs(files) == Len(files) < 2

InsufficientClips ==
    /\ Downloaded
    /\ use_transitions
    /\ TooFewInputs(input_files)
    /\ Fail("InsufficientClips")
    /\ UNCHANGED <<request, input_files, disk, output, probeVars, normVars,
                   planVars, engine_cmd, log>>

EnterTransitionMode ==
    /\ Downloaded
    /\ use_transitions
    /\ ~TooFewInputs(input_files)
    /\ pc' = "probe"
    /\ UNCHANGED <<request, input_files, disk, output, probeVars, normVars,
                   planVars, engine_cmd, log, result, error>>

\* durations = [_probe_duration(p) ...]; audio_flags = [_has_audio_stream(p) ...]
Probe ==
    /\ pc = "probe"
    /\ durations' \in [1..Len(input_files) -> DurValues]
    /\ audio_flags' \in [1..Len(input_files) -> BOOLEAN]
    /\ probed' = {input_files[i] : i \in 1..Len(input_files)}
    /\ pc' = "normalize"
    /\ UNCHANGED <<request, input_files, disk, output, normVars, planVars,
                   engine_cmd, log, result, error>>

\* _probe_duration runs ffprobe with check=True and parses its output
ProbeFails ==
    /\ pc = "probe"
    /\ \E i \in 1..Len(input_files) :
          probed' = {input_files[j] : j \in 1..i}
    /\ Fail("ProbeFailed")
    /\ UNCHANGED <<request, input_files, disk, output, durations, audio_flags,
                   normVars, planVars, engine_cmd, log>>

\* joins = len(input_files) - 1; the two _normalize_list calls; prepad
Normalize ==
    /\ pc = "normalize"
    /\ LET joins == Len(input_files) - 1
           tn == _normalize_list(transitions, joins)
           dn == _normalize_list(transition_durations, joins)
       IN  IF ~tn.ok
           THEN Fail(tn.err) /\ UNCHANGED normVars
           ELSE IF ~dn.ok
           THEN /\ Fail(dn.err)
                /\ transitions_norm' = tn.val
                /\ UNCHANGED <<d_norm, prepad>>
           ELSE /\ transitions_norm' = tn.val
                /\ d_norm' = dn.val
                /\ prepad' = IF entry = "concatenate"
                             THEN Prepad(dn.val, preserve_clip_starts,
                                         Len(input_files))
                             ELSE prepad
                /\ pc' = "clips"
                /\ UNCHANGED <<result, error>>
    /\ UNCHANGED <<request, input_files, disk, output, probeVars, planVars,
                   engine_cmd, log>>

\* One iteration of "for idx, _ in enumerate(input_files)" of
\* process_video_concatenate: the video chain, then the audio chain or silence.
ClipNodeConcatenate ==
    /\ pc = "clips"
    /\ entry = "concatenate"
    /\ Len(v_labels) < Len(input_files)
    /\ LET idx == Len(v_labels)
           pp == prepad[idx + 1]
           lead == preserve_clip_starts /\ pp > 0
           vline == VideoLine(idx, IF lead THEN pp ELSE 0)
           aline == IF audio_flags[idx + 1]
                    THEN AudioLine(idx, IF lead THEN DelayMs(pp) ELSE 0)
                    ELSE SilenceLine(idx, TotalSil(durations[idx + 1], pp,
                                                   preserve_clip_starts))
       IN  /\ filter_lines' = filter_lines \o <<vline, aline>>
           /\ v_labels' = Append(v_labels, Lab("v", idx, ""))
           /\ a_labels' = Append(a_labels, Lab("a", idx, ""))
    /\ UNCHANGED <<request, pc, input_files, disk, output, probeVars, normVars,
                   current_v, current_a, current_len, cum, k, engine_cmd, log,
                   result, error>>

\* The same loop of process_video_combination: no lead-in, silence for the
\* clip's own duration.
ClipNodeCombination ==
    /\ pc = "clips"
    /\ entry = "combination"
    /\ Len(v_labels) < Len(input_files)
    /\ LET idx == Len(v_labels)
           vline == VideoLine(idx, 0)
           aline == IF audio_flags[idx + 1]
                    THEN AudioLine(idx, 0)
                    ELSE SilenceLine(idx, durations[idx + 1])
       IN  /\ filter_lines' = filter_lines \o <<vline, aline>>
           /\ v_labels' = Append(v_labels, Lab("v", idx, ""))
           /\ a_labels' = Append(a_labels, Lab("a", idx, ""))
    /\ UNCHANGED <<request, pc, input_files, disk, output, probeVars, normVars,
                   current_v, current_a, current_len, cum, k, engine_cmd, log,
                   result, error>>

\* current_v, current_a = v_labels[0], a_labels[0]; current_len = durations[0]
\* (concatenate) or cum = 0.0 (combination); k starts at 1
StartJoins ==
    /\ pc = "clips"
    /\ Len(v_labels) = Len(input_files)
    /\ current_v' = v_labels[1]
    /\ current_a' = a_labels[1]
    /\ current_len' = IF entry = "concatenate" THEN durations[1] ELSE current_len
    /\ cum' = 0
    /\ k' = 1
    /\ pc' = "joins"
    /\ UNCHANGED <<request, input_files, disk, output, probeVars, normVars,
                   filter_lines, v_labels, a_labels, engine_cmd, log, result,
                   error>>

\* One iteration of "for k in range(1, len(input_files))" of
\* process_video_concatenate.
JoinConcatenate ==
    /\ pc = "joins"
    /\ entry = "concatenate"
    /\ k < Len(input_files)
    /\ LET trans == transitions_norm[k]
           d_k == d_norm[k]
           prepad_k == prepad[k + 1]
           offset == Offset(current_len, d_k)
           out_v == Lab("v", k, "o")
           out_a == Lab("a", k, "o")
       IN  /\ filter_lines' = filter_lines \o
                 <<XfadeLine(k, current_v, v_labels[k + 1], trans, d_k, offset),
                   AcrossfadeLine(k, current_a, a_labels[k + 1], d_k)>>
           /\ current_len' = NextLen(current_len, prepad_k, durations[k + 1], d_k)
           /\ current_v' = out_v
           /\ current_a' = out_a
    /\ k' = k + 1
    /\ UNCHANGED <<request, pc, input_files, disk, output, probeVars, normVars,
                   v_labels, a_labels, cum, engine_cmd, log, result, error>>

\* The same loop of process_video_combination, with the cumulative offset.
JoinCombination ==
    /\ pc = "joins"
    /\ entry = "combination"
    /\ k < Len(input_files)
    /\ LET prev_dur == durations[k]
           d == d_norm[k]
           offset == CumOffset(cum + prev_dur, d_norm, k)
           out_v == Lab("v", k, "o")
           out_a == Lab("a", k, "o")
       IN  /\ cum' = cum + prev_dur
           /\ filter_lines' = filter_lines \o
                 <<XfadeLine(k, current_v, v_labels[k + 1], transitions_norm[k],
                             d, offset),
                   AcrossfadeLine(k, current_a, a_labels[k + 1], d)>>
           /\ current_v' = out_v
           /\ current_a' = out_a
    /\ k' = k + 1
    /\ UNCHANGED <<request, pc, input_files, disk, output, probeVars, normVars,
                   v_labels, a_labels, current_len, engine_cmd, log, result,
                   error>>

\* subprocess.run(cmd, check=True) with -filter_complex and the two -map
RunEngine ==
    /\ pc = "joins"
    /\ k = Len(input_files)
    /\ engine_cmd' = Append(engine_cmd,
                            Cmd("filter", input_files, <<current_v, current_a>>))
    /\ log' = Append(log, "engine")
    /\ \/ /\ output' \in {"absent", "empty", "nonempty"}
          /\ pc' = "cleanup"
          /\ UNCHANGED <<result, error>>
       \/ /\ Fail("TranscodeFailed")
          /\ UNCHANGED output
    /\ UNCHANGED <<request, input_files, disk, probeVars, normVars, planVars>>

\* for f in input_files: try: os.remove(f) except: pass
Cleanup ==
    /\ pc = "cleanup"
    /\ disk' = disk \ {InputFile(input_files[i]) : i \in 1..Len(input_files)}
    /\ log' = Append(log, "release")
    /\ pc' = "check"
    /\ UNCHANGED <<request, input_files, output, probeVars, normVars, planVars,
                   engine_cmd, result, error>>

\* a check that lets an absent output through
OutputCheckAlwaysPasses(out) == TRUE

\* if not os.path.exists(output_path): raise FileNotFoundError
OutputCheckPasses(out) == out # "absent"

CheckOutput ==
    /\ pc = "check"
    /\ log' = Append(log, "verify")
    /\ IF OutputCheckPasses(output)
       THEN /\ pc' = "done"
            /\ result' = "returned"
            /\ UNCHANGED error
       ELSE Fail("OutputMissing")
    /\ UNCHANGED <<request, input_files, disk, output, probeVars, normVars,
                   planVars, engine_cmd>>

Next ==
    \/ Download
    \/ DownloadFails
    \/ FastCopy
    \/ FastConcat
    \/ InsufficientClips
    \/ EnterTransitionMode
    \/ Probe
    \/ ProbeFails
    \/ Normalize
    \/ ClipNodeConcatenate
    \/ ClipNodeCombination
    \/ StartJoins
    \/ JoinConcatenate
    \/ JoinCombination
    \/ RunEngine
    \/ Cleanup
    \/ CheckOutput

Spec == Init /\ [][Next]_vars

TypeOK ==
    /\ pc \in {"download", "probe", "normalize", "clips", "joins", "cleanup",
               "check", "done"}
    /\ result \in {"none", "returned", "raised"}
    /\ (pc = "done") = (result # "none")

\* ---------------------------------------------------------------- claims
N == Len(input_files)

\* the request went through transition mode far enough to have a schedule
PlanStarted == pc = "clips" \/ Len(filter_lines) > 0
Concatenate == entry = "concatenate"

XfadeLines == {i \in 1..Len(filter_lines) : filter_lines[i].op = "xfade"}
LinesOf(o, c) ==
    {i \in 1..Len(filter_lines) :
        filter_lines[i].op = o /\ filter_lines[i].clip = c}

\* Composed length after join j, from the recurrence of the specification:
\* durations[0] before the first join, then + prepad[j] + durations[j] - d[j-1].
RECURSIVE RefLen(_)
RefLen(j) ==
    IF j = 0 THEN durations[1]
    ELSE RefLen(j - 1) + prepad[j + 1] + durations[j + 1] - d_norm[j]

\* C1: in transition mode of process_video_concatenate the xfade of every join
\* j carries the offset max(currentLen - d[j-1], 0), where currentLen is
\* durations[0] at first and grows by prepad[j] + durations[j] - d[j-1] at each
\* join; the running current_len is that value, carried from join to join.
C1_IterativeOffsets ==
    (Concatenate /\ k >= 1) =>
        /\ current_len = RefLen(k - 1)
        /\ Cardinality(XfadeLines) = k - 1
        /\ \A i \in XfadeLines :
              LET j == filter_lines[i].clip IN
              /\ j \in 1..(k - 1)
              /\ filter_lines[i].dur = d_norm[j]
              /\ filter_lines[i].amt = Max(RefLen(j - 1) - d_norm[j], 0)

\* a finished plan of three clips with lead-in: the second offset differs from
\* the one the unpadded durations would give
C1_Witness ==
    /\ Concatenate /\ k = 3 /\ N = 3
    /\ preserve_clip_starts /\ d_norm[1] > 0
    /\ \E i \in XfadeLines :
          /\ filter_lines[i].clip = 2
          /\ filter_lines[i].amt > 0
          /\ filter_lines[i].amt # durations[1] + durations[2] - d_norm[1] - d_norm[2]

\* C2: every cross-fade offset emitted into the plan is >= 0, in the plans of
\* process_video_concatenate and of process_video_combination alike.
C2_OffsetsNonNegative ==
    \A i \in XfadeLines : filter_lines[i].amt >= 0

\* C3: when the driver has exited, by return or by raise, no temporary input
\* file and no concat list file of the request is left on local storage.
C3_TempFilesRemovedOnEveryExit ==
    pc = "done" => disk = {}

\* C4: after the last join of process_video_concatenate the composed length is
\* sum(durations) - sum(transitionDurations) without lead-in and sum(durations)
\* with lead-in; for durations [5,4,6] and transition durations [1,1.5] it is
\* 12.5 without lead-in, and with lead-in currentLen runs 5, 9, 15 with
\* offsets 4.0 and 7.5 (half seconds: 10, 18, 30 and 8, 15).
ExampleClips == durations = <<10, 8, 12>> /\ d_norm = <<2, 3>>
OffsetOfJoin(j) == {filter_lines[i].amt : i \in LinesOf("xfade", j)}

C4_FinalTimelineLength ==
    (Concatenate /\ k >= 1) =>
        /\ k = N =>
              current_len = IF preserve_clip_starts
                            THEN SumSeq(durations)
                            ELSE SumSeq(durations) - SumSeq(d_norm)
        /\ (ExampleClips /\ ~preserve_clip_starts /\ k = 3) => current_len = 25
        /\ (ExampleClips /\ preserve_clip_starts) =>
              /\ k = 1 => current_len = 10
              /\ k = 2 => current_len = 18 /\ OffsetOfJoin(1) = {8}
              /\ k = 3 => current_len = 30 /\ OffsetOfJoin(2) = {15}

C4_Witness ==
    /\ Concatenate /\ k = 3 /\ N = 3
    /\ ExampleClips /\ preserve_clip_starts
    /\ current_len = 30

\* C5: the lead-in schedule of transition mode has one entry per clip, its
\* first entry is 0, and entry i >= 1 is transitionDurations[i-1] when
\* preserve_clip_starts is set and 0 when it is not.
C5_LeadInSchedule ==
    (Concatenate /\ PlanStarted) =>
        /\ Len(prepad) = N
        /\ prepad[1] = 0
        /\ \A i \in 2..N :
              prepad[i] = IF preserve_clip_starts THEN d_norm[i - 1] ELSE 0

C5_Witness ==
    /\ Concatenate /\ PlanStarted /\ preserve_clip_starts
    /\ N = 3 /\ prepad[2] > 0 /\ prepad[3] > 0 /\ prepad[2] # prepad[3]

\* C6: _normalize_list gives, for every scalar or sequence value, a list of
\* exactly N-1 entries (a scalar replicated, a short sequence extended by its
\* last element, a long one cut), so the normalized transition names and
\* durations of N clips have length N-1.
NormalizeActed ==
    PlanStarted \/ error \in {"IndexError", "InvalidParameterShape"}

Normalized(value, norm) ==
    /\ Len(norm) = N - 1
    /\ \A i \in 1..(N - 1) :
          norm[i] = IF value.tag = "scalar" THEN value.val[1]
                    ELSE IF i <= Len(value.val) THEN value.val[i]
                    ELSE value.val[Len(value.val)]

C6_NormalizedLength ==
    (NormalizeActed /\ transitions.tag # "other"
                    /\ transition_durations.tag # "other") =>
        /\ Normalized(transitions, transitions_norm)
        /\ Normalized(transition_durations, d_norm)

\* C7: the plan of process_video_concatenate holds a silence node for clip i
\* exactly when clip i has no audio stream; its length is durations[i] +
\* prepad[i] with lead-in and durations[i] without, which is the length of the
\* clip's padded video track.
C7_SilenceForMuteClips ==
    (Concatenate /\ PlanStarted) =>
        \* clip idx owns the lines 2 idx + 1 (video) and 2 idx + 2 (audio or
        \* silence), and no other per-clip line exists
        /\ \A idx \in 0..(Len(v_labels) - 1) :
              /\ filter_lines[2 * idx + 1].op = "video"
              /\ filter_lines[2 * idx + 1].clip = idx
              /\ filter_lines[2 * idx + 2].op \in {"audio", "anullsrc"}
              /\ filter_lines[2 * idx + 2].clip = idx
        /\ \A i \in 1..Len(filter_lines) :
              LET l == filter_lines[i] IN
              /\ (l.op \in {"video", "audio", "anullsrc"}) = (i <= 2 * Len(v_labels))
              /\ l.op = "audio" => audio_flags[l.clip + 1]
              /\ l.op = "anullsrc" =>
                    /\ ~audio_flags[l.clip + 1]
                    /\ l.amt = IF preserve_clip_starts
                               THEN durations[l.clip + 1] + prepad[l.clip + 1]
                               ELSE durations[l.clip + 1]
                    \* the clip's video track: its duration plus its tpad
                    /\ l.amt = durations[l.clip + 1] + filter_lines[i - 1].amt

C7_Witness ==
    /\ Concatenate /\ PlanStarted /\ preserve_clip_starts
    /\ Len(v_labels) = N
    /\ \E idx \in 1..(N - 1) :
          /\ ~audio_flags[idx + 1] /\ audio_flags[idx]
          /\ prepad[idx + 1] > 0
          /\ LinesOf("anullsrc", idx) # {}

\* C8: a request whose transitions or transition_durations is neither a
\* scalar nor a list/tuple is rejected with InvalidParameterShape before any
\* clip was downloaded or probed.
C8_ShapeRejectedBeforeIO ==
    error = "InvalidParameterShape" =>
        /\ input_files = <<>>
        /\ disk = {}
        /\ probed = {}

\* C9 as stated: the input files are released only after the output was
\* verified, and a path is returned only for an existing, non-empty output.
C9_VerifyBeforeRelease ==
    /\ (\E i \in 1..Len(log) : log[i] = "release") =>
          (\E j \in 1..Len(log) : log[j] = "verify")
    /\ result = "returned" => output = "nonempty"

IsPrefix(s, t) == Len(s) <= Len(t) /\ SubSeq(t, 1, Len(s)) = s

\* C9 as amended: the driver runs the media engine, then releases the input
\* files, then verifies that the output path exists; a path is returned only
\* after that check passed, and an absent output after a zero exit status of
\* the engine is raised as OutputMissing.
C9_EngineReleaseVerify ==
    /\ IsPrefix(log, <<"engine", "release", "verify">>)
    /\ result = "returned" =>
          /\ log = <<"engine", "release", "verify">>
          /\ output # "absent"
    /\ (pc = "done" /\ Len(log) >= 2 /\ output = "absent") =>
          /\ result = "raised"
          /\ error = "OutputMissing"
    /\ error = "OutputMissing" => log = <<"engine", "release", "verify">>

C9_Witness ==
    /\ pc = "done" /\ error = "OutputMissing" /\ output = "absent"
    /\ log = <<"engine", "release", "verify">>

\* C10: when transitions are requested for fewer than two clips no clip is
\* ever probed and the media engine is never run, and the request, once its
\* clips are fetched, fails with InsufficientClips.
C10_InsufficientClipsBeforeProbe ==
    (use_transitions /\ media_urls < 2) =>
        /\ probed = {}
        /\ engine_cmd = <<>>
        /\ pc # "probe"
        /\ pc = "done" =>
              /\ result = "raised"
              /\ N = media_urls => error = "InsufficientClips"

C10_Witness ==
    /\ use_transitions /\ media_urls = 1 /\ N = 1
    /\ pc = "done" /\ error = "InsufficientClips"

\* C11: without use_transitions the driver takes the fast path whatever the
\* number of clips: no clip is probed, no schedule, offset or filter node is
\* computed, one clip is stream-copied, and any other number of clips goes to
\* the lossless concat in input order; the engine runs once, on all the clips.
InputOrder == [i \in 1..N |-> i - 1]

C11_FastPath ==
    ~use_transitions =>
        /\ probed = {} /\ durations = <<>> /\ audio_flags = <<>>
        /\ transitions_norm = <<>> /\ d_norm = <<>> /\ prepad = <<>>
        /\ filter_lines = <<>> /\ k = 0 /\ current_len = 0 /\ cum = 0
        /\ pc \notin {"probe", "normalize", "clips", "joins"}
        /\ Len(engine_cmd) <= 1
        /\ (pc \in {"cleanup", "check"} \/ result = "returned") =>
              Len(engine_cmd) = 1
        /\ \A i \in 1..Len(engine_cmd) :
              /\ N = media_urls
              /\ engine_cmd[i].maps = <<>>
              /\ engine_cmd[i].inputs = InputOrder
              /\ engine_cmd[i].kind = IF N = 1 THEN "copy" ELSE "concat"

C11_Witness ==
    /\ ~use_transitions /\ N = 3 /\ result = "returned"
    /\ engine_cmd = <<Cmd("concat", <<0, 1, 2>>, <<>>)>>

\* C12: the blend nodes form a left-to-right chain: join 1 takes the labels of
\* clip 0 and clip 1, join j > 1 takes the outputs of join j-1 and the labels
\* of clip j; every per-clip node precedes every blend node; in the plan handed
\* to the engine every label is produced once and consumed once, and the
\* mapped labels are the outputs of join N-1.
ClipOps == {"video", "audio", "anullsrc"}
BlendOps == {"xfade", "acrossfade"}
Running(p, j) == IF j = 1 THEN Lab(p, 0, "") ELSE Lab(p, j - 1, "o")
StreamOf(o) == IF o = "xfade" THEN "v" ELSE "a"

BlendLines == {i \in 1..Len(filter_lines) : filter_lines[i].op \in BlendOps}
Produced == {filter_lines[i].out : i \in 1..Len(filter_lines)}
Consumed(maps) ==
    UNION {{filter_lines[i].ins[1], filter_lines[i].ins[2]} : i \in BlendLines}
        \cup {maps[1], maps[2]}

C12_BlendChain ==
    PlanStarted =>
        \* once a blend node is emitted only blend nodes follow
        /\ \A i \in 1..(Len(filter_lines) - 1) :
              filter_lines[i].op \in BlendOps =>
                  filter_lines[i + 1].op \in BlendOps
        \* a blend node takes two labels, a per-clip node only an input stream
        /\ \A i \in 1..Len(filter_lines) :
              LET l == filter_lines[i] IN
              IF l.op \in BlendOps
              THEN /\ l.clip \in 1..(N - 1)
                   /\ l.ins = <<Running(StreamOf(l.op), l.clip),
                                Lab(StreamOf(l.op), l.clip, "")>>
                   /\ l.out = Lab(StreamOf(l.op), l.clip, "o")
              ELSE /\ l.op \in ClipOps
                   /\ \A q \in 1..Len(l.ins) : l.ins[q][1] = "in"
        \* the plan handed to the engine: the labels are pairwise distinct, the
        \* two inputs of the blend nodes and the two maps are as many places as
        \* there are labels and name every label, so each is consumed once
        /\ \A c \in 1..Len(engine_cmd) :
              /\ engine_cmd[c].kind = "filter"
              /\ engine_cmd[c].maps = <<Lab("v", N - 1, "o"), Lab("a", N - 1, "o")>>
              /\ Len(filter_lines) = 2 * N + 2 * (N - 1)
              /\ Cardinality(Produced) = Len(filter_lines)
              /\ 2 * Cardinality(BlendLines) + 2 = Len(filter_lines)
              /\ Consumed(engine_cmd[c].maps) = Produced

C12_Witness ==
    /\ PlanStarted /\ N = 3 /\ result = "returned"
    /\ Len(engine_cmd) = 1
    /\ engine_cmd[1].maps = <<Lab("v", 2, "o"), Lab("a", 2, "o")>>
    /\ \E i \in XfadeLines :
          filter_lines[i].ins = <<Lab("v", 1, "o"), Lab("v", 2, "")>>

\* C13: without lead-in the iterative offset of process_video_concatenate and
\* the cumulative offset of process_video_combination agree at every join for
\* the same durations and transition durations whenever the cumulative value
\* is not negative; where it is negative the iterative offset is 0.
RECURSIVE IterLen(_)
IterLen(j) ==
    IF j = 0 THEN durations[1]
    ELSE NextLen(IterLen(j - 1), 0, durations[j + 1], d_norm[j])

IterativeOffset(j) == Offset(IterLen(j - 1), d_norm[j])
CumulativeOffset(j) == CumOffset(SumSeq(SubSeq(durations, 1, j)), d_norm, j)

C13_IterativeEqualsCumulative ==
    (k >= 1 /\ ~preserve_clip_starts) =>
        \A i \in XfadeLines :
            LET j == filter_lines[i].clip
                emitted == filter_lines[i].amt
            IN  IF Concatenate
                THEN emitted = IF CumulativeOffset(j) >= 0
                               THEN CumulativeOffset(j) ELSE 0
                ELSE /\ emitted >= 0 => emitted = IterativeOffset(j)
                     /\ emitted < 0 => IterativeOffset(j) = 0

C13_Witness ==
    /\ ~Concatenate /\ k = 3 /\ N = 3 /\ d_norm = <<2, 3>>
    /\ \E i \in XfadeLines :
          /\ filter_lines[i].clip = 2
          /\ filter_lines[i].amt > 0
          /\ filter_lines[i].amt = IterativeOffset(2)
====
